---- MODULE Spec2Model ----
(***************************************************************************)
(* WEBRTC-VLM: the signaling relay (two versions of the server are in the  *)
(* repository) and the two peers' signaling handlers.                      *)
(*                                                                         *)
(*   relay   : src/unnamed/part_005 (settle timer, 'join' accepted) and    *)
(*             src/server/index.js  (immediate check, 'start-stream' only) *)
(*   browser : src/src/components/WebRTCStream.tsx (consumer)              *)
(*   phone   : src/src/pages/PhoneStream.tsx (producer)                    *)
(*                                                                         *)
(* Specifications:                                                         *)
(*   Spec, SpecOrder    the relay                                          *)
(*   SpecMalformed      the relay, messages it cannot parse included       *)
(*   SpecPeer           a peer's signaling handlers and ICE handling       *)
(*   SpecReconnect      the browser's signaling websocket and its backoff  *)
(*   SpecSignalingFair  the signaling websocket of either participant,     *)
(*                      every timer running                                *)
(*   SpecConnection     the connection status of a participant             *)
(*   SpecGate           one frame gate (lastDetectionTime, isProcessing)   *)
(*   SpecProcessing     the browser's processFrame loops                   *)
(*   SpecSettle         the relay with the time of its settle timers       *)
(*   SpecTransport      the events of the peer connections                 *)
(*   SpecMetrics        the metrics collector (lib/metricsCollector.ts)    *)
(*   SpecPercentile     the percentiles of a window of latencies           *)
(*   SpecBandwidth      two runs of the collector, side by side            *)
(*   SpecSession        the relay and the participants of a session        *)
(***************************************************************************)
EXTENDS Integers, Sequences, FiniteSets, TLC

\* ------------------------------------------------------------- bounds
NumWS == 2
MaxRegs == 2
MaxFwd == 2
MaxPeerMsgs == 4
MaxIceEvents == 4
MaxInits == 7
MaxReinits == 1
MaxTicks == 2
MaxLoops == 2
MaxSamples == 101
MaxResets == 1
MaxWindow == 4
MaxAdvances == 4

\* ------------------------------------------------- program constants
\* WebSocket.OPEN, CLOSING, CLOSED of the ws library (readyState)
OPEN == 1
CLOSING == OPEN + 1
CLOSED == OPEN + 2
\* a socket the server has not accepted yet (no ws object exists)
NOSOCKET == OPEN - 1

WS == 1 .. NumWS
NoWS == 0
MainRoom == "main-room"
Undefined == "undefined"
\* the values data.role takes: the two roles, and a missing / other role
Roles == {"phone", "browser", Undefined}
\* the two versions of the relay
RelayVersions == {"part_005", "index_js"}
ForwardTypes == {"offer", "answer", "ice-candidate"}

\* const DETECTION_INTERVAL = 125 (ms)
DETECTION_INTERVAL == 125
\* the cap of the reconnect attempts: if (reconnectAttempts.current < 5)
ReconnectCap == 5
\* the threshold of the failure counter: if (iceFailureCount.current > 3)
IceFailureThreshold == 3
\* the settle delay of the relay: setTimeout(..., 100) (ms)
SettleDelay == 100
\* the samples the collector keeps: if (this.frameMetrics.length > 100)
FrameWindow == 100
\* the samples an export carries: this.frameMetrics.slice(-10)
ExportDetails == 10
\* Date.now() when the first processing loop can start
StartTime == 8 * DETECTION_INTERVAL

VARIABLES
  relay,            \* which server file runs (fixed by Init)
  observe,          \* which history is recorded (fixed by Init):
                    \* "events" = lastEvent and offersSent,
                    \* "order" = outbox and fwdSeq
  roomConnections,  \* Map roomId -> array of ws
  wsRole,           \* ws.role
  wsRoomId,         \* ws.roomId
  readyState,       \* ws.readyState
  timers,           \* number of settle timers scheduled and not yet run
  outbox,           \* per ws: the forwarded messages written to its socket,
                    \* each named by its number in the order the relay received them
  fwdSeq,           \* history: offer/answer/ice-candidate messages handled
  regCount,         \* history: registrations handled
  offersSent,       \* history: create-offer messages sent
  lastEvent,        \* history: the handler that ran last and what it sent
  clock,            \* the time of the server, the times its settle timers
                    \* are due, and (history) the times of the registrations
                    \* and of the create-offer messages
  peer              \* one peer: its RTCPeerConnection and signaling handlers

relayVars == <<relay, observe, roomConnections, wsRole, wsRoomId, readyState, timers,
               outbox, fwdSeq, regCount, offersSent, lastEvent, clock>>
vars == <<relay, observe, roomConnections, wsRole, wsRoomId, readyState, timers,
          outbox, fwdSeq, regCount, offersSent, lastEvent, clock, peer>>

\* ------------------------------------------------- array helpers (JS)
\* Array.prototype.findIndex / indexOf: the first index whose element passes
\* the test (is in the set matching), 1-based, 0 for -1
FindIndex(s, matching) ==
  IF \E i \in 1 .. Len(s) : s[i] \in matching
  THEN CHOOSE i \in 1 .. Len(s) :
         s[i] \in matching /\ \A j \in 1 .. (i - 1) : s[j] \notin matching
  ELSE 0

\* Array.prototype.find, NoWS for undefined
Find(s, matching) ==
  LET i == FindIndex(s, matching) IN IF i = 0 THEN NoWS ELSE s[i]

\* Array.prototype.splice(index, 1)
Splice(s, i) == SubSeq(s, 1, i - 1) \o SubSeq(s, i + 1, Len(s))

Range(s) == {s[i] : i \in 1 .. Len(s)}

\* roomConnections.get(roomId) || []
GetRoom(rc, roomId) == IF roomId \in DOMAIN rc THEN rc[roomId] ELSE <<>>

NoEvent == [ev |-> "none", ws |-> NoWS, type |-> "none", sentTo |-> NoWS]

Event(ev, ws, type, sentTo) ==
  IF observe = "events"
  THEN [ev |-> ev, ws |-> ws, type |-> type, sentTo |-> sentTo]
  ELSE NoEvent

\* client.send(JSON.stringify(msg)): written to the socket only when it is open
SendPrepend(box, to, msg) ==
  IF to # NoWS /\ readyState[to] = OPEN
  THEN [box EXCEPT ![to] = <<msg>> \o @]
  ELSE box

Send(box, to, msg) ==
  IF to # NoWS /\ readyState[to] = OPEN
  THEN [box EXCEPT ![to] = Append(@, msg)]
  ELSE box

\* ---------------------------------------------------------------- Init
\* the clock at the start: time 0, no timer, no registration, no create-offer
NewClock ==
  [now |-> 0,
   due |-> <<>>,                      \* when each timer set runs, in the order set
   regAt |-> [w \in WS |-> 0 - 1],    \* history: when w registered last
   offerAt |-> [w \in WS |-> 0 - 1],  \* history: when w was first sent create-offer
   steps |-> 0]                       \* history: steps of the time

InitRelay ==
  /\ relay \in RelayVersions
  /\ observe = "events"
  /\ roomConnections = <<>>
  /\ wsRole = [w \in WS |-> Undefined]
  /\ wsRoomId = [w \in WS |-> Undefined]
  /\ readyState = [w \in WS |-> NOSOCKET]
  /\ timers = 0
  /\ outbox = [w \in WS |-> <<>>]
  /\ fwdSeq = 0
  /\ regCount = 0
  /\ offersSent = 0
  /\ lastEvent = NoEvent
  /\ clock = NewClock

\* ------------------------------------------------- wss.on('connection')
\* sockets are numbered in the order the server accepts them
Connection(ws) ==
  /\ readyState[ws] = NOSOCKET
  /\ \A w \in WS : w < ws => readyState[w] # NOSOCKET
  /\ readyState' = [readyState EXCEPT ![ws] = OPEN]
  /\ lastEvent' = NoEvent
  /\ UNCHANGED <<relay, observe, roomConnections, wsRole, wsRoomId, timers, outbox,
                 fwdSeq, regCount, offersSent, peer, clock>>

\* a 'message' event is emitted for an open socket; the handlers contain no
\* await, so each runs to completion before the next event
Receives(ws) == readyState[ws] = OPEN

\* the case labels that lead to handleStartStream
StartTypes(version) ==
  IF version = "part_005" THEN {"join", "start-stream"} ELSE {"start-stream"}

\* ------------------------------------- handleStartStream (part_005)
\* the array after the duplicate removal and the push
ConnectionsAfterStart(connections, ws, role) ==
  LET existingIndex == FindIndex(connections, {c \in WS : wsRole[c] = role})
      removed == IF existingIndex # 0 THEN Splice(connections, existingIndex)
                 ELSE connections
  IN Append(removed, ws)

\* the client the duplicate removal splices out, NoWS when there is none
ExistingClient(connections, role) ==
  Find(connections, {c \in WS : wsRole[c] = role})

handleStartStream(ws, data) ==
  LET connections == GetRoom(roomConnections, MainRoom)
  IN /\ roomConnections' =
          (MainRoom :> ConnectionsAfterStart(connections, ws, data.role))
     /\ wsRoomId' = [wsRoomId EXCEPT ![ws] = MainRoom]
     /\ wsRole' = [wsRole EXCEPT ![ws] = data.role]
     /\ timers' = timers + 1
     /\ regCount' = regCount + 1
     /\ lastEvent' = Event("message", ws, "register", NoWS)
     /\ UNCHANGED <<outbox, offersSent, fwdSeq>>

\* ------------------------------------- handleStartStream (index.js)
\* the client told to create the offer, NoWS when nothing is sent
StartTarget_index(connections, role, ws) ==
  LET phoneClient == Find(connections, {c \in WS : role[c] = "phone"})
      browserClient == Find(connections, {c \in WS : role[c] = "browser"})
  IN IF phoneClient # NoWS /\ browserClient # NoWS
        /\ phoneClient # browserClient /\ role[ws] = "browser"
     THEN ws ELSE NoWS

handleStartStream_index(ws, data) ==
  LET connections == Append(GetRoom(roomConnections, MainRoom), ws)
      role == [wsRole EXCEPT ![ws] = data.role]
      to == StartTarget_index(connections, role, ws)
  IN /\ roomConnections' = (MainRoom :> connections)
     /\ wsRoomId' = [wsRoomId EXCEPT ![ws] = MainRoom]
     /\ wsRole' = role
     /\ regCount' = regCount + 1
     /\ offersSent' = IF to # NoWS /\ observe = "events" THEN offersSent + 1
                      ELSE offersSent
     /\ lastEvent' = Event("message", ws, "register", to)
     /\ UNCHANGED <<timers, outbox, fwdSeq>>

StartStream(ws, data) ==
  /\ data.type \in StartTypes(relay)
  /\ Receives(ws)
  /\ regCount < MaxRegs
  /\ IF relay = "part_005" THEN handleStartStream(ws, data)
     ELSE handleStartStream_index(ws, data)
  /\ UNCHANGED <<relay, observe, readyState>>

OnStartStream(ws, data) == StartStream(ws, data) /\ UNCHANGED <<clock, peer>>

\* --------------------------------------------- the settle timer callback
\* setTimeout(cb, 100): cb runs once, at some later turn of the event loop
SettleTargetPhone(currentConnections) ==
  LET phoneClient == Find(currentConnections,
                          {c \in WS : wsRole[c] = "phone" /\ readyState[c] = OPEN})
      browserClient == Find(currentConnections,
                            {c \in WS : wsRole[c] = "browser" /\ readyState[c] = OPEN})
  IN IF phoneClient # NoWS /\ browserClient # NoWS /\ phoneClient # browserClient
     THEN phoneClient ELSE NoWS

SettleTarget(currentConnections) ==
  LET phoneClient == Find(currentConnections,
                          {c \in WS : wsRole[c] = "phone" /\ readyState[c] = OPEN})
      browserClient == Find(currentConnections,
                            {c \in WS : wsRole[c] = "browser" /\ readyState[c] = OPEN})
  IN IF phoneClient # NoWS /\ browserClient # NoWS /\ phoneClient # browserClient
     THEN browserClient ELSE NoWS

RunSettleTimer ==
  /\ timers > 0
  /\ timers' = timers - 1
  /\ LET to == SettleTarget(GetRoom(roomConnections, MainRoom))
     IN /\ offersSent' = IF to # NoWS /\ observe = "events" THEN offersSent + 1
                      ELSE offersSent
        /\ lastEvent' = Event("timer", NoWS, "none", to)
  /\ UNCHANGED <<relay, observe, roomConnections, wsRole, wsRoomId, readyState, outbox,
                 fwdSeq, regCount>>

SettleTimer == RunSettleTimer /\ UNCHANGED <<clock, peer>>

\* -------------------------------------------------- the forward handlers
\* handleOffer: the first client whose role is 'phone', whoever sent it
OfferTarget(ws) ==
  Find(GetRoom(roomConnections, wsRoomId[ws]), {c \in WS : wsRole[c] = "phone"})

\* handleAnswer: the first client whose role is 'browser'
AnswerTarget(ws) ==
  Find(GetRoom(roomConnections, wsRoomId[ws]), {c \in WS : wsRole[c] = "browser"})

\* handleIceCandidate (part_005): the first other client that is open
IceTarget(ws) ==
  Find(GetRoom(roomConnections, wsRoomId[ws]),
       {c \in WS : c # ws /\ readyState[c] = OPEN})

\* handleIceCandidate (index.js): the first other client
IceTarget_index(ws) ==
  Find(GetRoom(roomConnections, wsRoomId[ws]), {c \in WS : c # ws})

\* the handler finds its target and sends (send() on a socket that is not
\* open writes nothing)
Route(ws, type, to) ==
  /\ Receives(ws)
  /\ IF observe = "order"
     THEN /\ fwdSeq < MaxFwd
          /\ fwdSeq' = fwdSeq + 1
          /\ outbox' = Send(outbox, to, fwdSeq')
     ELSE UNCHANGED <<fwdSeq, outbox>>
  /\ lastEvent' = Event("message", ws, type, to)
  /\ UNCHANGED <<relay, observe, roomConnections, wsRole, wsRoomId, readyState,
                 timers, regCount, offersSent, clock>>

Forward(ws, type, to) == Route(ws, type, to) /\ UNCHANGED peer

handleOffer(ws) == Forward(ws, "offer", OfferTarget(ws))

handleAnswer(ws) == Forward(ws, "answer", AnswerTarget(ws))

handleIceCandidate(ws) ==
  Forward(ws, "ice-candidate",
          IF relay = "part_005" THEN IceTarget(ws) ELSE IceTarget_index(ws))

\* the default branch of the switch: an unknown type is logged only
\* (in index.js 'join' is an unknown type)
Default(ws, type) ==
  /\ type \notin StartTypes(relay) \cup ForwardTypes
  /\ Receives(ws)
  /\ lastEvent' = Event("message", ws, type, NoWS)
  /\ UNCHANGED <<relay, observe, roomConnections, wsRole, wsRoomId, readyState, timers,
                 outbox, fwdSeq, regCount, offersSent, clock>>

OnUnknown(ws, type) == Default(ws, type) /\ UNCHANGED peer

\* ------------------------------------------------------ ws.on('close')
\* the map after the loop over the rooms: the first occurrence of ws is
\* spliced out of each array, and a room left empty is deleted
RoomsAfterCloseKeepEmpty(rc, ws) ==
  [r \in DOMAIN rc |->
     LET index == FindIndex(rc[r], {ws})
     IN IF index > 0 THEN Splice(rc[r], index) ELSE rc[r]]

RoomsAfterClose(rc, ws) ==
  LET index(r) == FindIndex(rc[r], {ws})
      after(r) == IF index(r) > 0 THEN Splice(rc[r], index(r)) ELSE rc[r]
      kept == {r \in DOMAIN rc : ~(index(r) > 0 /\ Len(after(r)) = 0)}
  IN [r \in kept |-> after(r)]

\* the closing handshake has begun (readyState 2); 'close' is not emitted yet
BeginClose(ws) ==
  /\ readyState[ws] = OPEN
  /\ readyState' = [readyState EXCEPT ![ws] = CLOSING]
  /\ lastEvent' = NoEvent
  /\ UNCHANGED <<relay, observe, roomConnections, wsRole, wsRoomId, timers, outbox,
                 fwdSeq, regCount, offersSent, peer, clock>>

OnClose(ws) ==
  /\ readyState[ws] \in {OPEN, CLOSING}
  /\ readyState' = [readyState EXCEPT ![ws] = CLOSED]
  /\ roomConnections' = RoomsAfterClose(roomConnections, ws)
  /\ lastEvent' = NoEvent
  /\ UNCHANGED <<relay, observe, wsRole, wsRoomId, timers, outbox, fwdSeq, regCount,
                 offersSent, peer, clock>>

\* no call of calculatePercentile yet
NoPercentile == [percentile |-> 0 - 1, value |-> 0]

\* new MetricsCollector(): no samples, the time of construction, no frames
\* processed, no bandwidth
NewCollector(now) ==
  [frameMetrics |-> <<>>,
   startTime |-> now,
   processedFrames |-> 0,
   bandwidthStats |-> [uplink |-> 0, downlink |-> 0]]

\* the peer, before it has received anything
Sides == {"browser", "phone"}

NewPeer(side) ==
  [side |-> side,
   remoteDescription |-> FALSE,  \* peerConnection.remoteDescription is set
   operations |-> <<>>,          \* operations called and not yet settled
   candidates |-> 0,             \* ice-candidate messages received
   applied |-> <<>>,             \* candidates added, in the order added
   invalid |-> {},               \* candidates whose addIceCandidate ran with
                                 \* no remote description (InvalidStateError)
   error |-> FALSE,              \* the phone's setError(...) was called
   received |-> 0,               \* signaling messages handled
   sent |-> 0,                   \* offers / answers sent to the relay
   iceFailureCount |-> 0,        \* iceFailureCount.current
   reconnectAttempts |-> 0,      \* reconnectAttempts.current
   status |-> "connecting",      \* the last value given to onConnectionChange
   pcs |-> <<"open">>,           \* the RTCPeerConnection objects created
   sockets |-> <<"connecting">>, \* the WebSocket objects created
   pcRef |-> 1,                  \* peerConnectionRef.current (0 for null)
   wsRef |-> 1,                  \* websocketRef.current (0 for null)
   timers |-> <<>>,              \* reconnect timers scheduled and not yet run:
                                 \* the delay of each, and (history) the
                                 \* reconnects made when it was set
   restarts |-> 0,               \* history: calls of restartIce() on a connection
   iceEvents |-> 0,              \* history: ICE state changes handled
   made |-> 0,                   \* history: reconnects made since the last open
   reinits |-> 0,                \* history: explicit re-initializations
   engine |-> TRUE,              \* detectionEngineRef.current is set
   detections |-> "empty",       \* the detections shown: the last value given
                                 \* to onDetections ([] at the start)
   outcome |-> "pending",        \* history: how the last analysis ended
   loops |-> <<>>,               \* the processFrame loops started
   now |-> StartTime,            \* Date.now()
   ticks |-> 0,                  \* history: changes of the clock
   metrics |-> NewCollector(StartTime),  \* metricsCollectorRef.current
   sinceReset |-> 0,             \* history: calls of recordFrame since the
                                 \* construction or the last reset()
   resets |-> 0,                 \* history: calls of reset()
   lastOp |-> "new",             \* history: the last call on the collector
   origin |-> "none",            \* history: where the bandwidth numbers the
                                 \* collector holds came from
   computed |-> NoPercentile,    \* history: the last call of calculatePercentile
   other |-> [metrics |-> NewCollector(StartTime),  \* the collector of a second
              origin |-> "none"],                   \* run, and its history
   clients |-> <<>>]             \* the participants of a session, one for each
                                 \* socket of the relay (none outside a session)

InitPeer == peer = NewPeer("browser")

\* ------------------------------------------------------------ the relay
Messages == [type : {"join", "start-stream"}, role : Roles]

NextRelay ==
  \/ \E ws \in WS : Connection(ws)
  \/ \E ws \in WS, data \in Messages : OnStartStream(ws, data)
  \/ \E ws \in WS : handleOffer(ws)
  \/ \E ws \in WS : handleAnswer(ws)
  \/ \E ws \in WS : handleIceCandidate(ws)
  \/ \E ws \in WS, type \in {"join", "unknown"} : OnUnknown(ws, type)
  \/ \E ws \in WS : BeginClose(ws)
  \/ \E ws \in WS : OnClose(ws)
  \/ SettleTimer

Init == InitRelay /\ InitPeer

Next == NextRelay

Spec == Init /\ [][Next]_vars

\* the same relay, recording the order of the forwarded messages
InitOrder ==
  /\ relay \in RelayVersions
  /\ observe = "order"
  /\ roomConnections = <<>>
  /\ wsRole = [w \in WS |-> Undefined]
  /\ wsRoomId = [w \in WS |-> Undefined]
  /\ readyState = [w \in WS |-> NOSOCKET]
  /\ timers = 0
  /\ outbox = [w \in WS |-> <<>>]
  /\ fwdSeq = 0
  /\ regCount = 0
  /\ offersSent = 0
  /\ lastEvent = NoEvent
  /\ clock = NewClock
  /\ InitPeer

SpecOrder == InitOrder /\ [][Next]_vars

\* ------------------------------------- the relay and unreadable messages
\* JSON.parse(message) throws (or the parsed value is null): the catch of the
\* message handler logs the error and nothing else happens
OnUnparseable(ws) ==
  /\ Receives(ws)
  /\ lastEvent' = Event("message", ws, "unparseable", NoWS)
  /\ UNCHANGED <<relay, observe, roomConnections, wsRole, wsRoomId, readyState, timers,
                 outbox, fwdSeq, regCount, offersSent, clock, peer>>

NextMalformed ==
  \/ NextRelay
  \/ \E ws \in WS : OnUnparseable(ws)

SpecMalformed == Init /\ [][NextMalformed]_vars


\* ------------------------------------------------- the relay in time
\* The time of the server moves in steps of half a settle delay.  A timer
\* runs when the time has reached the moment it is due, and the time does
\* not move on while a timer is due: timers are on time.
TimeStep == SettleDelay \div 2

\* a registration at the time of the clock; part_005 sets a timer of
\* SettleDelay, index.js tells the browser at once (or nobody)
TimedStartStream(ws, data) ==
  /\ StartStream(ws, data)
  /\ UNCHANGED peer
  /\ clock' = [clock EXCEPT
                 !.regAt[ws] = clock.now,
                 !.due = IF relay = "part_005" THEN Append(@, clock.now + SettleDelay)
                         ELSE @,
                 !.offerAt = IF lastEvent'.sentTo # NoWS /\ @[lastEvent'.sentTo] < 0
                             THEN [@ EXCEPT ![lastEvent'.sentTo] = clock.now]
                             ELSE @]

\* the timer set first runs when it is due
TimedSettleTimer ==
  /\ clock.due # <<>>
  /\ Head(clock.due) <= clock.now
  /\ RunSettleTimer
  /\ UNCHANGED peer
  /\ clock' = [clock EXCEPT
                 !.due = Tail(@),
                 !.offerAt = IF lastEvent'.sentTo # NoWS /\ @[lastEvent'.sentTo] < 0
                             THEN [@ EXCEPT ![lastEvent'.sentTo] = clock.now]
                             ELSE @]

Advance ==
  /\ clock.steps < MaxAdvances
  /\ \A i \in 1 .. Len(clock.due) : clock.due[i] > clock.now
  /\ clock' = [clock EXCEPT !.now = @ + TimeStep, !.steps = @ + 1]
  /\ UNCHANGED <<relay, observe, roomConnections, wsRole, wsRoomId, readyState, timers,
                 outbox, fwdSeq, regCount, offersSent, lastEvent, peer>>

NextSettle ==
  \/ \E ws \in WS : Connection(ws)
  \/ \E ws \in WS, data \in Messages : TimedStartStream(ws, data)
  \/ \E ws \in WS : OnClose(ws)
  \/ TimedSettleTimer
  \/ Advance

SpecSettle == Init /\ [][NextSettle]_vars

\* =============================================================== a peer
\* One participant: the browser (WebRTCStream.tsx) or the phone
\* (PhoneStream.tsx).  Its RTCPeerConnection runs the operations the handlers
\* call (setRemoteDescription, addIceCandidate, ...) one at a time, in the
\* order they were called; an awaiting handler goes on when its operation
\* has settled.
\* initializeWebRTC (setupWebRTCConnection on the phone): reports 'connecting',
\* creates a peer connection and a websocket and stores them in the refs; the
\* objects the refs held before are left as they are
initializeWebRTC(p) ==
  [p EXCEPT !.status = "connecting",
            !.engine = TRUE,
            !.pcs = Append(@, "open"),
            !.pcRef = Len(p.pcs) + 1,
            !.sockets = Append(@, "connecting"),
            !.wsRef = Len(p.sockets) + 1]

\* what peerConnection.restartIce() can do: return, or throw (a browser
\* without the method); a throw is taken only while another initialization
\* is within the bound
RestartOutcomes(p) ==
  IF Len(p.pcs) < MaxInits THEN {"returns", "throws"} ELSE {"returns"}

\* restartIce: nothing without a peer connection in the ref; else the restart
\* is called on it, and a throw falls back to initializeWebRTC()
restartIce(p, outcome) ==
  IF p.pcRef = 0 THEN p
  ELSE IF outcome = "returns" THEN [p EXCEPT !.restarts = @ + 1]
  ELSE initializeWebRTC([p EXCEPT !.restarts = @ + 1])

\* the catch of the browser's addIceCandidate: a restart when the failure
\* counter is above the threshold; the phone's catch only logs
OnAddIceCandidateError(p, outcome) ==
  IF p.side = "browser" /\ p.iceFailureCount > IceFailureThreshold
  THEN restartIce(p, outcome)
  ELSE p

PeerReceives ==
  /\ peer.received < MaxPeerMsgs
  /\ UNCHANGED relayVars

Call(op) == [peer EXCEPT !.operations = Append(@, op), !.received = @ + 1]

\* PhoneStream.tsx case 'offer': await setRemoteDescription(message.offer)
PhoneOnOffer ==
  /\ peer.side = "phone"
  /\ PeerReceives
  /\ peer' = Call([op |-> "setRemoteDescription", id |-> 0])

\* WebRTCStream.tsx case 'answer': await setRemoteDescription(message.answer)
BrowserOnAnswer ==
  /\ peer.side = "browser"
  /\ PeerReceives
  /\ peer' = Call([op |-> "setRemoteDescription", id |-> 0])

\* WebRTCStream.tsx case 'create-offer': await createOffer(...)
BrowserOnCreateOffer ==
  /\ peer.side = "browser"
  /\ PeerReceives
  /\ peer' = Call([op |-> "createOffer", id |-> 0])

\* case 'ice-candidate' on either peer: the candidate is handed to
\* addIceCandidate at once, whatever the state of the remote description
OnIceCandidate ==
  LET id == peer.candidates + 1
  IN [peer EXCEPT !.candidates = id, !.received = @ + 1,
                  !.operations = Append(@, [op |-> "addIceCandidate", id |-> id])]

PeerOnIceCandidate ==
  /\ PeerReceives
  /\ peer' = OnIceCandidate

\* a message type the peer's switch has no case for
PeerOnOther ==
  /\ PeerReceives
  /\ peer' = [peer EXCEPT !.received = @ + 1]

\* the operation at the head of the chain settles
Settled == [peer EXCEPT !.operations = Tail(@)]

\* setRemoteDescription resolves: the description is set; the phone's handler
\* goes on to createAnswer, the browser's handler ends
SetRemoteDescriptionResolves ==
  /\ peer.operations # <<>>
  /\ Head(peer.operations).op = "setRemoteDescription"
  /\ peer' = [Settled EXCEPT
                !.remoteDescription = TRUE,
                !.operations = IF peer.side = "phone"
                               THEN Append(@, [op |-> "createAnswer", id |-> 0])
                               ELSE @]
  /\ UNCHANGED relayVars

\* setRemoteDescription rejects (a description the connection cannot take in
\* its signaling state): the phone's catch logs it, the browser's handler ends
SetRemoteDescriptionRejects ==
  /\ peer.operations # <<>>
  /\ Head(peer.operations).op = "setRemoteDescription"
  /\ peer' = [Settled EXCEPT !.error = (peer.side = "phone") \/ @]
  /\ UNCHANGED relayVars

\* createOffer / createAnswer resolve: the handler calls setLocalDescription
CreateResolves ==
  /\ peer.operations # <<>>
  /\ Head(peer.operations).op \in {"createOffer", "createAnswer"}
  /\ peer' = [Settled EXCEPT
                !.operations = Append(@, [op |-> "setLocalDescription", id |-> 0])]
  /\ UNCHANGED relayVars

\* setLocalDescription resolves: the handler sends the offer / answer
SetLocalDescriptionResolves ==
  /\ peer.operations # <<>>
  /\ Head(peer.operations).op = "setLocalDescription"
  /\ peer' = [Settled EXCEPT !.sent = @ + 1]
  /\ UNCHANGED relayVars

\* addIceCandidate runs: with a remote description the candidate is added,
\* without one the call is an invalid-state error (caught and logged)
AddIceCandidateRuns ==
  /\ peer.operations # <<>>
  /\ Head(peer.operations).op = "addIceCandidate"
  /\ LET id == Head(peer.operations).id
     IN IF peer.remoteDescription
        THEN peer' = [Settled EXCEPT !.applied = Append(@, id)]
        ELSE \E outcome \in RestartOutcomes(peer) :
               peer' = OnAddIceCandidateError(
                         [Settled EXCEPT !.invalid = @ \cup {id}], outcome)
  /\ UNCHANGED relayVars

\* oniceconnectionstatechange.  Browser: 'failed' counts the failure and calls
\* restartIce(), 'connected' resets the counter.  Phone: 'failed' calls
\* peerConnection.restartIce().  Any other state is logged only.
IceStates == {"failed", "connected", "completed", "checking"}

OnIceConnectionStateChange(state, outcome) ==
  /\ peer.iceEvents < MaxIceEvents
  /\ \E i \in 1 .. Len(peer.pcs) : peer.pcs[i] = "open"
  /\ LET p == [peer EXCEPT !.iceEvents = @ + 1]
     IN peer' =
          CASE state = "failed" /\ p.side = "browser" ->
                 restartIce([p EXCEPT !.iceFailureCount = @ + 1], outcome)
            [] state = "failed" /\ p.side = "phone" ->
                 [p EXCEPT !.restarts = @ + 1]
            [] state = "connected" /\ p.side = "browser" ->
                 [p EXCEPT !.iceFailureCount = 0]
            [] OTHER -> p
  /\ UNCHANGED relayVars

InitPeerSide ==
  /\ \E side \in Sides : peer = NewPeer(side)
  /\ relay = "part_005"
  /\ observe = "events"
  /\ roomConnections = <<>>
  /\ wsRole = [w \in WS |-> Undefined]
  /\ wsRoomId = [w \in WS |-> Undefined]
  /\ readyState = [w \in WS |-> NOSOCKET]
  /\ timers = 0
  /\ outbox = [w \in WS |-> <<>>]
  /\ fwdSeq = 0
  /\ regCount = 0
  /\ offersSent = 0
  /\ lastEvent = NoEvent
  /\ clock = NewClock

NextPeer ==
  \/ PhoneOnOffer
  \/ BrowserOnAnswer
  \/ BrowserOnCreateOffer
  \/ PeerOnIceCandidate
  \/ PeerOnOther
  \/ SetRemoteDescriptionResolves
  \/ SetRemoteDescriptionRejects
  \/ CreateResolves
  \/ SetLocalDescriptionResolves
  \/ AddIceCandidateRuns
  \/ \E state \in IceStates, outcome \in RestartOutcomes(peer) :
       OnIceConnectionStateChange(state, outcome)

SpecPeer == InitPeerSide /\ [][NextPeer]_vars

\* ================================================= the signaling channel
\* The websocket handlers of the browser (WebRTCStream.tsx 135-211) and of
\* the phone (PhoneStream.tsx 180-238), the reconnect timer and cleanup().
\* A WebSocket object is "connecting", "open", "closing" (close() was called)
\* or "closed"; a failed connection fires 'error' and then 'close' in one task.
RECURSIVE MathPow(_, _)
MathPow(base, exponent) ==
  IF exponent = 0 THEN 1 ELSE base * MathPow(base, exponent - 1)

\* Math.pow(2, reconnectAttempts.current) * 1000
ReconnectDelayLinear(attempts) == (attempts + 1) * 1000

ReconnectDelay(attempts) == MathPow(2, attempts) * 1000

\* the test of the timer callback
ReconnectAllowedAlways(p) == p.reconnectAttempts >= 0

ReconnectAllowed(p) == p.reconnectAttempts < ReconnectCap

SocketIds == 1 .. Len(peer.sockets)

\* websocket.onopen: the browser resets reconnectAttempts (and sends 'join')
WsOpen(i) ==
  /\ peer.sockets[i] = "connecting"
  /\ peer' = [peer EXCEPT
                !.sockets[i] = "open",
                !.reconnectAttempts = IF peer.side = "browser" THEN 0 ELSE @,
                !.made = 0]
  /\ UNCHANGED relayVars

\* websocket.onerror.  Browser: a timer is set whose delay is computed now.
\* Phone: the error is shown and 'disconnected' reported.
WsOnError(p) ==
  IF p.side = "browser"
  THEN [p EXCEPT
          !.timers = Append(@, [ms |-> ReconnectDelay(p.reconnectAttempts),
                                made |-> p.made])]
  ELSE [p EXCEPT !.error = TRUE, !.status = "disconnected"]

\* websocket.onclose
WsOnClose(p) == [p EXCEPT !.status = "disconnected"]

\* the connection fails: 'error', then 'close'
WsFails(i) ==
  /\ peer.sockets[i] \in {"connecting", "open"}
  /\ peer' = WsOnClose(WsOnError([peer EXCEPT !.sockets[i] = "closed"]))
  /\ UNCHANGED relayVars

\* the connection ends without an error (closed by the server, or the
\* closing handshake that close() began is over): 'close'
WsCloses(i) ==
  /\ peer.sockets[i] \in {"open", "closing"}
  /\ peer' = WsOnClose([peer EXCEPT !.sockets[i] = "closed"])
  /\ UNCHANGED relayVars

\* the callback of setTimeout in onerror
OnReconnectTimer(p) ==
  IF ReconnectAllowed(p)
  THEN initializeWebRTC([p EXCEPT !.reconnectAttempts = @ + 1])
  ELSE p

\* a reconnect timer runs; made counts the initializations it caused
ReconnectTimer(k) ==
  /\ k \in 1 .. Len(peer.timers)
  /\ LET p == [peer EXCEPT !.timers = Splice(@, k)]
         after == OnReconnectTimer(p)
     IN /\ Len(after.pcs) <= MaxInits
        /\ peer' = [after EXCEPT
                      !.made = IF Len(after.pcs) > Len(p.pcs) THEN @ + 1 ELSE @]
  /\ UNCHANGED relayVars

\* the browser component after its first initializeWebRTC()
InitBrowser ==
  /\ peer = NewPeer("browser")
  /\ relay = "part_005"
  /\ observe = "events"
  /\ roomConnections = <<>>
  /\ wsRole = [w \in WS |-> Undefined]
  /\ wsRoomId = [w \in WS |-> Undefined]
  /\ readyState = [w \in WS |-> NOSOCKET]
  /\ timers = 0
  /\ outbox = [w \in WS |-> <<>>]
  /\ fwdSeq = 0
  /\ regCount = 0
  /\ offersSent = 0
  /\ lastEvent = NoEvent
  /\ clock = NewClock

\* ==================================================== the connection
\* The peer-connection handlers that report the status, cleanup() and the
\* re-initialization, together with the signaling channel above.
ConnectionStates == {"connected", "failed", "disconnected", "connecting", "closed"}

SomePcOpen == \E i \in 1 .. Len(peer.pcs) : peer.pcs[i] = "open"

\* onconnectionstatechange: the status reported for a connection state (the
\* phone reports the same values and, besides, whether it is streaming)
onconnectionstatechange(p, state) ==
  [p EXCEPT !.status = CASE state = "connected" -> "connected"
                         [] state = "failed" -> "disconnected"
                         [] state = "disconnected" -> "disconnected"
                         [] state = "connecting" -> "connecting"
                         [] OTHER -> @]

\* onconnectionstatechange of a peer connection that was not closed
OnConnectionStateChange(state) ==
  /\ SomePcOpen
  /\ peer' = onconnectionstatechange(peer, state)
  /\ UNCHANGED relayVars

\* ontrack (browser): the stream is shown and 'connected' reported
OnTrack ==
  /\ peer.side = "browser"
  /\ SomePcOpen
  /\ peer' = [peer EXCEPT !.status = "connected"]
  /\ UNCHANGED relayVars

\* websocket.close(): an open socket starts the closing handshake, a
\* connecting one is failed (its 'error' and 'close' follow)
CloseSocket(state) ==
  CASE state = "open" -> "closing"
    [] state = "connecting" -> "aborted"
    [] OTHER -> state

\* cleanup() (the phone's stopStreaming): the objects in the refs are closed
\* and the refs cleared, 'disconnected' is reported
cleanup(p) ==
  [p EXCEPT
     !.pcs = IF p.pcRef # 0 THEN [@ EXCEPT ![p.pcRef] = "closed"] ELSE @,
     !.pcRef = 0,
     !.sockets = IF p.wsRef # 0
                 THEN [@ EXCEPT ![p.wsRef] = CloseSocket(@)] ELSE @,
     !.wsRef = 0,
     !.engine = IF p.side = "browser" THEN FALSE ELSE @,
     !.status = "disconnected"]

Cleanup ==
  /\ peer.pcRef # 0 \/ peer.wsRef # 0
  /\ peer' = cleanup(peer)
  /\ UNCHANGED relayVars

\* the explicit re-initialization.  Browser: the effect runs again (cleanup,
\* then init).  Phone: the stream is started again after it was stopped.
Reinitialize ==
  /\ Len(peer.pcs) < MaxInits
  /\ peer.reinits < MaxReinits
  /\ peer.side = "phone" => peer.pcRef = 0
  /\ peer' = initializeWebRTC(
               [IF peer.side = "browser" THEN cleanup(peer) ELSE peer
                  EXCEPT !.reinits = @ + 1])
  /\ UNCHANGED relayVars

\* the 'error' and 'close' of a socket that close() failed while connecting
WsAborted(i) ==
  /\ peer.sockets[i] = "aborted"
  /\ peer' = WsOnClose(WsOnError([peer EXCEPT !.sockets[i] = "closed"]))
  /\ UNCHANGED relayVars

\* the signaling channel alone: its events, the timers and cleanup()
NextReconnect ==
  \/ \E i \in 1 .. MaxInits : i \in SocketIds /\ WsOpen(i)
  \/ \E i \in 1 .. MaxInits : i \in SocketIds /\ WsFails(i)
  \/ \E i \in 1 .. MaxInits : i \in SocketIds /\ WsCloses(i)
  \/ \E i \in 1 .. MaxInits : i \in SocketIds /\ WsAborted(i)
  \/ \E k \in 1 .. MaxInits : ReconnectTimer(k)
  \/ Cleanup

SpecReconnect == InitBrowser /\ [][NextReconnect]_vars

\* the signaling channel of either participant; a timer that was set runs,
\* and a socket that close() failed fires its events
FairSignaling ==
  /\ WF_vars(\E k \in 1 .. MaxInits : ReconnectTimer(k))
  /\ WF_vars(\E i \in 1 .. MaxInits : i \in SocketIds /\ WsAborted(i))

SpecSignalingFair == InitPeerSide /\ [][NextReconnect]_vars /\ FairSignaling

NextConnection ==
  \/ \E i \in 1 .. MaxInits : i \in SocketIds /\ WsOpen(i)
  \/ \E i \in 1 .. MaxInits : i \in SocketIds /\ WsFails(i)
  \/ \E i \in 1 .. MaxInits : i \in SocketIds /\ WsCloses(i)
  \/ \E i \in 1 .. MaxInits : i \in SocketIds /\ WsAborted(i)
  \/ \E k \in 1 .. MaxInits : ReconnectTimer(k)
  \/ \E state \in ConnectionStates : OnConnectionStateChange(state)
  \/ OnTrack
  \/ Cleanup
  \/ Reinitialize

SpecConnection == InitPeerSide /\ [][NextConnection]_vars

\* ============================================== the metrics collector
\* MetricsCollector of lib/metricsCollector.ts.  Times are milliseconds.  A
\* sample keeps the frame id and the end-to-end latency of the frame (the
\* server and network latencies are computed the same way and kept beside
\* them).  Latencies and percentiles are numbers of the form k/100: the
\* percentile operators return hundredths of a millisecond.

\* null
Null == [error |-> FALSE, frame_id |-> Undefined, capture_ts |-> 0]

\* one DetectionResult handed to recordFrame
DetectionResult(frame_id, capture_ts) ==
  [error |-> FALSE, frame_id |-> frame_id, capture_ts |-> capture_ts]

\* the body of an error response, { error: '...' }, handed to recordFrame as
\* if it were a DetectionResult: it has no frame id and no timestamps
ErrorBody == [error |-> TRUE, frame_id |-> Undefined, capture_ts |-> 0]

\* a number minus undefined
NaN == "NaN"

\* displayTs - detectionResult.capture_ts
Latency(detectionResult, displayTs) ==
  IF detectionResult.error THEN NaN ELSE displayTs - detectionResult.capture_ts

\* recordFrame without the shift(): no sample is ever removed
recordFrameNoShift(m, detectionResult, now) ==
  [m EXCEPT !.frameMetrics = Append(@, [frame_id |-> detectionResult.frame_id,
                                        e2e_latency |-> Latency(detectionResult, now)]),
            !.processedFrames = @ + 1]

\* recordFrame with the counter taken from the length of the window
recordFrameCountsWindow(m, detectionResult, now) ==
  LET pushed == Append(m.frameMetrics, [frame_id |-> detectionResult.frame_id,
                                        e2e_latency |-> Latency(detectionResult, now)])
      kept == IF Len(pushed) > FrameWindow THEN Tail(pushed) ELSE pushed
  IN [m EXCEPT !.frameMetrics = kept, !.processedFrames = Len(kept)]

\* recordFrame(detectionResult): the sample is pushed, the counter goes up,
\* and a window longer than FrameWindow loses its first sample
recordFrame(m, detectionResult, now) ==
  LET displayTs == now
      metrics == [frame_id |-> detectionResult.frame_id,
                  e2e_latency |-> Latency(detectionResult, displayTs)]
      pushed == Append(m.frameMetrics, metrics)
  IN [m EXCEPT !.frameMetrics = IF Len(pushed) > FrameWindow THEN Tail(pushed)
                                ELSE pushed,
               !.processedFrames = @ + 1]

\* [...latencies].sort((a, b) => a - b)
IsAscending(s) == \A i \in 1 .. Len(s) - 1 : s[i] <= s[i + 1]

\* the values of a sequence
Values(s) == {s[i] : i \in 1 .. Len(s)}

\* the sorted array: at index i stands the value v with fewer than i
\* elements below v and at least i elements up to v
SortAscending(s) ==
  IF IsAscending(s) THEN s ELSE
  LET below == [v \in Values(s) |-> Cardinality({j \in 1 .. Len(s) : s[j] - v < 0})]
      upto == [v \in Values(s) |-> Cardinality({j \in 1 .. Len(s) : s[j] - v <= 0})]
  IN [i \in 1 .. Len(s) |-> CHOOSE v \in Values(s) : below[v] < i /\ i <= upto[v]]

\* calculatePercentile without the interpolation: the nearest lower rank
calculatePercentileLowerRank(sortedArray, percentile) ==
  IF Len(sortedArray) = 0 THEN 0
  ELSE 100 * sortedArray[(percentile * (Len(sortedArray) - 1)) \div 100 + 1]

\* calculatePercentile(sortedArray, percentile), in hundredths.  index is
\* percentile / 100 * (length - 1): scaled is 100 * index, so that
\* Math.floor(index) is scaled \div 100 and index % 1 is (scaled % 100) / 100
calculatePercentile(sortedArray, percentile) ==
  IF Len(sortedArray) = 0 THEN 0
  ELSE LET scaled == percentile * (Len(sortedArray) - 1)
           lower == scaled \div 100
           upper == IF scaled % 100 = 0 THEN lower ELSE lower + 1
           weight == scaled % 100
       IN IF upper >= Len(sortedArray)
          THEN 100 * sortedArray[Len(sortedArray)]
          ELSE sortedArray[lower + 1] * (100 - weight) + sortedArray[upper + 1] * weight

\* the number that stands for Infinity
Infinity == 0 - 1

\* processedFrames / elapsedSeconds, then `fps || 0`: frames per 1000
\* seconds.  With no time elapsed the quotient is NaN for no frame (given as
\* 0) and Infinity otherwise
Fps(frames, elapsedMs) ==
  IF elapsedMs = 0 THEN (IF frames = 0 THEN 0 ELSE Infinity)
  ELSE (frames * 1000000) \div elapsedMs

\* this.frameMetrics.map(f => f.e2e_latency)
WindowLatencies(m) == [i \in 1 .. Len(m.frameMetrics) |-> m.frameMetrics[i].e2e_latency]

\* getMetrics()
getMetrics(m, now) ==
  LET latencies == WindowLatencies(m)
      sortedLatencies == SortAscending(latencies)
  IN [latency |-> [median |-> calculatePercentile(sortedLatencies, 50),
                   p95 |-> calculatePercentile(sortedLatencies, 95)],
      fps |-> Fps(m.processedFrames, now - m.startTime),
      bandwidth |-> m.bandwidthStats,
      totalFrames |-> m.processedFrames,
      elapsedTime |-> now - m.startTime]

\* setBandwidthStats(uplink, downlink)
setBandwidthStats(m, uplink, downlink) ==
  [m EXCEPT !.bandwidthStats = [uplink |-> uplink, downlink |-> downlink]]

\* reset() without processedFrames = 0
resetKeepCount(m, now) == [NewCollector(now) EXCEPT !.processedFrames = m.processedFrames]

\* reset()
reset(m, now) ==
  [m EXCEPT !.frameMetrics = <<>>,
            !.startTime = now,
            !.processedFrames = 0,
            !.bandwidthStats = [uplink |-> 0, downlink |-> 0]]

\* array.slice(0, n)
SliceFirst(s, n) == SubSeq(s, 1, IF Len(s) > n THEN n ELSE Len(s))

\* array.slice(-n)
SliceLast(s, n) == SubSeq(s, IF Len(s) > n THEN Len(s) - n + 1 ELSE 1, Len(s))

\* exportMetrics(): the values of getMetrics() and the last ExportDetails
\* samples (the timestamp of the export is left out)
exportMetrics(m, now) ==
  LET metrics == getMetrics(m, now)
  IN [duration_seconds |-> metrics.elapsedTime,
      total_frames |-> metrics.totalFrames,
      processed_fps |-> metrics.fps,
      latency |-> [median_ms |-> metrics.latency.median,
                   p95_ms |-> metrics.latency.p95],
      bandwidth |-> [uplink_kbps |-> metrics.bandwidth.uplink,
                     downlink_kbps |-> metrics.bandwidth.downlink],
      frame_details |-> SliceLast(m.frameMetrics, ExportDetails)]

\* ================================================== frame processing
\* startProcessing (WebRTCStream.tsx 258-331).  Each call makes its own
\* lastDetectionTime and isProcessing and starts its own processFrame loop;
\* a loop is waiting for its next animation frame ("frame"), waiting for the
\* analysis it started ("awaiting"), or has stopped calling itself ("ended").
NoCall == [result |-> "none", at |-> 0]

NewLoop ==
  [lastDetectionTime |-> 0,
   isProcessing |-> FALSE,
   at |-> "frame",
   admits |-> 0,           \* history: admits since isProcessing was cleared
   lastAdmit |-> 0 - 1,    \* history: the time of the last admit (-1: none)
   prevAdmit |-> 0 - 1,    \* history: the time of the admit before it
   lastCall |-> NoCall]    \* history: what the last test decided, and when

\* const shouldRunDetection = (now - lastDetectionTime) >= DETECTION_INTERVAL
\*                            && !isProcessing
shouldRunDetectionUnlocked(loop, now) ==
  (now - loop.lastDetectionTime) >= DETECTION_INTERVAL

shouldRunDetectionStrict(loop, now) ==
  (now - loop.lastDetectionTime) > DETECTION_INTERVAL /\ ~loop.isProcessing

shouldRunDetection(loop, now) ==
  (now - loop.lastDetectionTime) >= DETECTION_INTERVAL /\ ~loop.isProcessing

\* the test and, when it passes, isProcessing = true; lastDetectionTime = now
TryDispatch(loop, now) ==
  IF shouldRunDetection(loop, now)
  THEN [loop EXCEPT !.isProcessing = TRUE,
                    !.lastDetectionTime = now,
                    !.admits = @ + 1,
                    !.lastAdmit = now,
                    !.prevAdmit = loop.lastAdmit,
                    !.lastCall = [result |-> "admit", at |-> now]]
  ELSE [loop EXCEPT !.lastCall = [result |-> "drop", at |-> now]]

\* finally { isProcessing = false }
Release(loop) == [loop EXCEPT !.isProcessing = FALSE, !.admits = 0]

\* the clock Date.now() reads moves on (or is set back)
ClockSteps == {62, 63, 0 - 63}

Tick(d) ==
  /\ peer.ticks < MaxTicks
  /\ peer' = [peer EXCEPT !.now = @ + d, !.ticks = @ + 1]
  /\ UNCHANGED relayVars

\* ------------------------------------------------ the gate on its own
\* one gate, its test called at any time and its release at any time after
\* an admit
GateTryDispatch ==
  /\ peer' = [peer EXCEPT !.loops[1] = TryDispatch(@, peer.now)]
  /\ UNCHANGED relayVars

GateRelease ==
  /\ peer.loops[1].isProcessing
  /\ peer' = [peer EXCEPT !.loops[1] = Release(@)]
  /\ UNCHANGED relayVars

InitGate ==
  /\ peer = [NewPeer("browser") EXCEPT !.loops = <<NewLoop>>]
  /\ relay = "part_005"
  /\ observe = "events"
  /\ roomConnections = <<>>
  /\ wsRole = [w \in WS |-> Undefined]
  /\ wsRoomId = [w \in WS |-> Undefined]
  /\ readyState = [w \in WS |-> NOSOCKET]
  /\ timers = 0
  /\ outbox = [w \in WS |-> <<>>]
  /\ fwdSeq = 0
  /\ regCount = 0
  /\ offersSent = 0
  /\ lastEvent = NoEvent
  /\ clock = NewClock

NextGate ==
  \/ GateTryDispatch
  \/ GateRelease
  \/ \E d \in ClockSteps : Tick(d)

SpecGate == InitGate /\ [][NextGate]_vars

\* ------------------------------------------- the loops of the browser
LoopIds == 1 .. Len(peer.loops)

\* videoRef.current.onloadedmetadata (set by ontrack): the detection engine
\* is made if there is none, then startProcessing() starts a new loop
OnLoadedMetadata ==
  /\ Len(peer.loops) < MaxLoops
  /\ peer' = [peer EXCEPT !.engine = TRUE, !.loops = Append(@, NewLoop)]
  /\ UNCHANGED relayVars

\* what the capture step (getContext, drawImage) can do
CaptureOutcomes == {"drawn", "throws"}

\* one call of processFrame by requestAnimationFrame, up to its first await.
\* Without a detection engine it returns and the loop is over.  A frame that
\* passes the test is captured outside the try block: a throw there ends the
\* call before the analysis, the finally and the next requestAnimationFrame.
processFrame(loop, now, engine, capture) ==
  IF ~engine THEN [loop EXCEPT !.at = "ended"]
  ELSE IF shouldRunDetection(loop, now)
  THEN [TryDispatch(loop, now) EXCEPT
          !.at = IF capture = "drawn" THEN "awaiting" ELSE "ended"]
  ELSE TryDispatch(loop, now)

ProcessFrame(i, capture) ==
  /\ i \in LoopIds
  /\ peer.loops[i].at = "frame"
  /\ peer' = [peer EXCEPT
                !.loops[i] = processFrame(@, peer.now, peer.engine, capture)]
  /\ UNCHANGED relayVars

\* the analysis (sendFrameToServer / detectObjects) settles: with a result,
\* with none, or with an error; the finally clears isProcessing and the call
\* asks for the next animation frame
AnalysisOutcomes == {"objects", "empty", "errorBody", "none", "error"}

\* what the analysis hands back for a frame captured at captureTs: a result
\* with detections or with none, the body of an error response (fetch does
\* not reject on a 400 or 500, and response.ok is not looked at), null
\* (sendFrameToServer caught a network failure, detectObjects caught a
\* failure of the model), or nothing because it threw
Detections(outcome, captureTs) ==
  CASE outcome \in {"objects", "empty"} -> DetectionResult(<<"frame", captureTs>>, captureTs)
    [] outcome = "errorBody" -> ErrorBody
    [] OTHER -> Null

\* the rest of processFrame after the await: a result that is not null goes
\* to onDetections (its detections, or [] if it has none) and to
\* recordFrame; null and a throw are logged.  The finally clears
\* isProcessing and the call asks for the next animation frame
analysisEnds(p, i, outcome) ==
  LET detections == Detections(outcome, p.loops[i].lastDetectionTime)
      handed == outcome \in {"objects", "empty", "errorBody"}
  IN [p EXCEPT
        !.detections = IF ~handed THEN @
                       ELSE IF outcome = "objects" THEN "objects" ELSE "empty",
        !.metrics = IF handed THEN recordFrame(@, detections, p.now) ELSE @,
        !.outcome = outcome,
        !.loops[i] = [Release(@) EXCEPT !.at = "frame"]]

AnalysisEnds(i, outcome) ==
  /\ i \in LoopIds
  /\ peer.loops[i].at = "awaiting"
  /\ peer' = analysisEnds(peer, i, outcome)
  /\ UNCHANGED relayVars

NextProcessing ==
  \/ OnLoadedMetadata
  \/ \E i \in 1 .. MaxLoops, capture \in CaptureOutcomes : ProcessFrame(i, capture)
  \/ \E i \in 1 .. MaxLoops, outcome \in AnalysisOutcomes : AnalysisEnds(i, outcome)
  \/ \E d \in ClockSteps : Tick(d)
  \/ Cleanup

SpecProcessing == InitBrowser /\ [][NextProcessing]_vars

\* every analysis that was started settles
FairProcessing ==
  \A i \in 1 .. MaxLoops :
    WF_vars(\E outcome \in AnalysisOutcomes : AnalysisEnds(i, outcome))

SpecProcessingFair == InitBrowser /\ [][NextProcessing]_vars /\ FairProcessing

\* ------------------------------------------------ the transport events
\* the events of the peer connections alone: ICE connection states,
\* connection states and tracks, in any order
NextTransport ==
  \/ \E state \in IceStates, outcome \in RestartOutcomes(peer) :
       OnIceConnectionStateChange(state, outcome)
  \/ \E state \in ConnectionStates : OnConnectionStateChange(state)
  \/ OnTrack

SpecTransport == InitPeerSide /\ [][NextTransport]_vars

\* ============================================== the collector at work
\* ------------------------------------------- the collector in the browser
\* the latency of the frames recorded
Latencies == {40}

\* the next detection result: frames are numbered from the last reset
NextResult(p, latency) ==
  DetectionResult(<<p.resets, p.sinceReset + 1>>, p.now - latency)

\* processFrame hands a detection result to recordFrame
RecordFrame(latency) ==
  /\ peer.sinceReset < MaxSamples
  /\ peer' = [peer EXCEPT
                !.metrics = recordFrame(@, NextResult(peer, latency), peer.now),
                !.sinceReset = @ + 1,
                !.lastOp = "recordFrame"]
  /\ UNCHANGED relayVars

\* the interval of 1000 ms: onMetricsUpdate(getMetrics())
GetMetrics ==
  /\ peer' = [peer EXCEPT !.lastOp = "getMetrics"]
  /\ UNCHANGED relayVars

ExportMetrics ==
  /\ peer' = [peer EXCEPT !.lastOp = "exportMetrics"]
  /\ UNCHANGED relayVars

Reset ==
  /\ peer.resets < MaxResets
  /\ peer' = [peer EXCEPT !.metrics = reset(@, peer.now),
                          !.sinceReset = 0,
                          !.resets = @ + 1,
                          !.origin = "none",
                          !.lastOp = "reset"]
  /\ UNCHANGED relayVars

\* ------------------------------------------------ updateBandwidthStats
\* what getStats() gives: it throws, or it reports the bytes sent and
\* received of the video streams (0 where there is no such report)
StatsThrows == [throws |-> TRUE, bytesSent |-> 0, bytesReceived |-> 0]

StatsReports ==
  {StatsThrows} \cup [throws : {FALSE}, bytesSent : {0, 128000}, bytesReceived : {0, 204800}]

\* Math.random(), in hundredths
Randoms == {0, 50}

\* bytes / 1024 * 8
Kbps(bytes) == (bytes * 8) \div 1024

\* 800 + Math.random() * 400 and 1200 + Math.random() * 800
MockBandwidth(ru, rd) ==
  [uplink |-> 800 + (ru * 400) \div 100,
   downlink |-> 1200 + (rd * 800) \div 100,
   origin |-> "synthetic"]

\* the numbers updateBandwidthStats gives to setBandwidthStats, and (history)
\* where they came from: the mock values stand in where getStats() throws
\* and where both numbers are 0
BandwidthEstimate(stats, ru, rd) ==
  IF stats.throws THEN MockBandwidth(ru, rd)
  ELSE IF Kbps(stats.bytesSent) = 0 /\ Kbps(stats.bytesReceived) = 0
  THEN MockBandwidth(ru, rd)
  ELSE [uplink |-> Kbps(stats.bytesSent),
        downlink |-> Kbps(stats.bytesReceived),
        origin |-> "measured"]

\* updateBandwidthStats() on one collector and its history
updateBandwidthStats(run, stats, ru, rd) ==
  LET estimate == BandwidthEstimate(stats, ru, rd)
  IN [run EXCEPT !.metrics = setBandwidthStats(@, estimate.uplink, estimate.downlink),
                 !.origin = estimate.origin]

\* the interval of 2000 ms; nothing is done without a peer connection
UpdateBandwidthStats(stats, ru, rd) ==
  /\ peer.pcRef # 0
  /\ peer' = [updateBandwidthStats(peer, stats, ru, rd) EXCEPT
                !.lastOp = "setBandwidthStats"]
  /\ UNCHANGED relayVars

NextMetrics ==
  \/ \E latency \in Latencies : RecordFrame(latency)
  \/ GetMetrics
  \/ ExportMetrics
  \/ Reset
  \/ \E ru \in {0}, rd \in {50} : UpdateBandwidthStats(StatsThrows, ru, rd)
  \/ \E d \in {63} : Tick(d)

SpecMetrics == InitBrowser /\ [][NextMetrics]_vars

\* ------------------------------------------------ the percentiles alone
\* the latencies of the samples of a window
LatencyValues == {10, 20, 30, 40}

\* a collector that has recorded samples of the given latencies and nothing
\* else
CollectorOf(latencies) ==
  [NewCollector(StartTime) EXCEPT
     !.frameMetrics = [i \in 1 .. Len(latencies) |->
                         [frame_id |-> <<0, i>>, e2e_latency |-> latencies[i]]],
     !.processedFrames = Len(latencies)]

InitPercentile ==
  /\ \E n \in 0 .. MaxWindow : \E latencies \in [1 .. n -> LatencyValues] :
       peer = [NewPeer("browser") EXCEPT !.metrics = CollectorOf(latencies),
                                         !.sinceReset = n]
  /\ relay = "part_005"
  /\ observe = "events"
  /\ roomConnections = <<>>
  /\ wsRole = [w \in WS |-> Undefined]
  /\ wsRoomId = [w \in WS |-> Undefined]
  /\ readyState = [w \in WS |-> NOSOCKET]
  /\ timers = 0
  /\ outbox = [w \in WS |-> <<>>]
  /\ fwdSeq = 0
  /\ regCount = 0
  /\ offersSent = 0
  /\ lastEvent = NoEvent
  /\ clock = NewClock

\* the percentiles asked for: getMetrics asks for 50 and 95
Percentiles == {0, 25, 50, 95, 100}

\* getMetrics sorts the latencies and calls calculatePercentile
CalculatePercentile(percentile) ==
  /\ peer' = [peer EXCEPT
                !.computed = [percentile |-> percentile,
                              value |-> calculatePercentile(
                                          SortAscending(WindowLatencies(peer.metrics)),
                                          percentile)],
                !.lastOp = "getMetrics"]
  /\ UNCHANGED relayVars

NextPercentile == \E percentile \in Percentiles : CalculatePercentile(percentile)

SpecPercentile == InitPercentile /\ [][NextPercentile]_vars

\* ------------------------------------------------------------ two runs
\* two runs of the browser side by side: the same frames are recorded in
\* both, and each run has its own getStats() reports and Math.random() draws
PairRecordFrame(latency) ==
  /\ peer.sinceReset < MaxSamples
  /\ peer' = [peer EXCEPT
                !.metrics = recordFrame(@, NextResult(peer, latency), peer.now),
                !.other.metrics = recordFrame(@, NextResult(peer, latency), peer.now),
                !.sinceReset = @ + 1,
                !.lastOp = "recordFrame"]
  /\ UNCHANGED relayVars

PairUpdateBandwidthStats(stats, ru, rd, otherStats, otherRu, otherRd) ==
  /\ peer.pcRef # 0
  /\ peer' = [updateBandwidthStats(peer, stats, ru, rd) EXCEPT
                !.other = updateBandwidthStats(@, otherStats, otherRu, otherRd),
                !.lastOp = "setBandwidthStats"]
  /\ UNCHANGED relayVars

NextBandwidth ==
  \/ \E latency \in Latencies : PairRecordFrame(latency)
  \/ \E stats, otherStats \in StatsReports, r, otherR \in Randoms :
       PairUpdateBandwidthStats(stats, r, r, otherStats, otherR, otherR)

SpecBandwidth == InitBrowser /\ [][NextBandwidth]_vars

\* ============================================================ a session
\* The relay together with the participants whose websockets it accepted:
\* the browser of WebRTCStream.tsx and the phone of PhoneStream.tsx.  A
\* participant has the messages the relay wrote to its socket and it has not
\* handled yet (inbox), the messages it sent that the relay has not handled
\* yet (sendq), and the operations of its peer connection that were called
\* and have not settled.  Both channels keep their order.  The connections
\* stay open, and the candidates the peers exchange are left out.
NoSdp == "none"

NewClient(side) ==
  [side |-> side,
   socket |-> "connecting",     \* the state of its WebSocket
   inbox |-> <<>>,
   sendq |-> <<>>,
   operations |-> <<>>,
   remoteDescription |-> FALSE,
   registered |-> FALSE,        \* history: the relay handled its registration
   instructions |-> 0,          \* history: create-offer messages handled
   created |-> 0,               \* history: calls of createOffer
   offersSent |-> 0,            \* history: offers sent
   offersGot |-> 0,             \* history: offers handled
   answersGot |-> 0]            \* history: answers handled

\* the message a participant sends when its websocket opens
Registration(side) ==
  IF side = "browser" THEN [type |-> "join", role |-> "browser"]
  ELSE [type |-> "start-stream", role |-> "phone"]

\* an offer or an answer on its way to the relay
Description(type) == [type |-> type, role |-> Undefined]

\* websocket.onopen
onopen(c) == [c EXCEPT !.socket = "open", !.sendq = Append(@, Registration(c.side))]

\* the browser's case 'create-offer' with a second createOffer
oncreateofferTwice(c) ==
  [c EXCEPT !.instructions = @ + 1,
            !.created = @ + 2,
            !.operations = @ \o <<[op |-> "createOffer", sdp |-> NoSdp],
                                  [op |-> "createOffer", sdp |-> NoSdp]>>]

\* the browser's case 'create-offer', up to its first await
oncreateoffer(c) ==
  [c EXCEPT !.instructions = @ + 1,
            !.created = @ + 1,
            !.operations = Append(@, [op |-> "createOffer", sdp |-> NoSdp])]

\* websocket.onmessage, up to the first await of the case taken: the browser
\* has cases for 'create-offer' and 'answer', the phone for 'offer'
onmessage(c, type) ==
  CASE c.side = "browser" /\ type = "create-offer" -> oncreateoffer(c)
    [] c.side = "browser" /\ type = "answer" ->
         [c EXCEPT !.answersGot = @ + 1,
                   !.operations = Append(@, [op |-> "setRemoteDescription", sdp |-> "answer"])]
    [] c.side = "phone" /\ type = "offer" ->
         [c EXCEPT !.offersGot = @ + 1,
                   !.operations = Append(@, [op |-> "setRemoteDescription", sdp |-> "offer"])]
    [] OTHER -> c

\* the operation called first settles and the handler that awaited it goes
\* on: setLocalDescription follows createOffer / createAnswer, the send
\* follows setLocalDescription, and on the phone createAnswer follows
\* setRemoteDescription
settles(c) ==
  LET operation == Head(c.operations)
      rest == [c EXCEPT !.operations = Tail(@)]
  IN CASE operation.op = "createOffer" ->
            [rest EXCEPT !.operations =
                           Append(@, [op |-> "setLocalDescription", sdp |-> "offer"])]
       [] operation.op = "createAnswer" ->
            [rest EXCEPT !.operations =
                           Append(@, [op |-> "setLocalDescription", sdp |-> "answer"])]
       [] operation.op = "setLocalDescription" ->
            [rest EXCEPT !.sendq = Append(@, Description(operation.sdp)),
                         !.offersSent = IF operation.sdp = "offer" THEN @ + 1 ELSE @]
       [] OTHER ->
            [rest EXCEPT !.remoteDescription = TRUE,
                         !.operations =
                           IF c.side = "phone"
                           THEN Append(@, [op |-> "createAnswer", sdp |-> NoSdp])
                           ELSE @]

\* client.send(...) of the relay, seen from the participants: the message is
\* in the inbox of the socket it was written to
Written(clients, to, type) ==
  IF to = NoWS \/ readyState[to] # OPEN THEN clients
  ELSE [clients EXCEPT ![to].inbox = Append(@, type)]

InitSession ==
  /\ \E sides \in [WS -> Sides] :
       peer = [NewPeer("browser") EXCEPT !.clients = [ws \in WS |-> NewClient(sides[ws])]]
  /\ InitRelay

\* the websocket of a participant opens once the relay has accepted it
ClientOpen(ws) ==
  /\ readyState[ws] = OPEN
  /\ peer.clients[ws].socket = "connecting"
  /\ peer' = [peer EXCEPT !.clients[ws] = onopen(@)]
  /\ UNCHANGED relayVars

\* ws.on('message') of the relay for the message a participant sent first
SessionMessage(ws) ==
  /\ peer.clients[ws].sendq # <<>>
  /\ LET data == Head(peer.clients[ws].sendq)
         handled == [peer.clients EXCEPT
                       ![ws].sendq = Tail(@),
                       ![ws].registered = @ \/ data = Registration(peer.clients[ws].side)]
     IN /\ IF data.type \in StartTypes(relay) THEN StartStream(ws, data)
           ELSE IF data.type = "offer" THEN Route(ws, "offer", OfferTarget(ws))
           ELSE IF data.type = "answer" THEN Route(ws, "answer", AnswerTarget(ws))
           ELSE Default(ws, data.type)
        /\ peer' = [peer EXCEPT
                      !.clients =
                        Written(handled, lastEvent'.sentTo,
                                IF data.type \in ForwardTypes THEN data.type
                                ELSE "create-offer")]
  /\ UNCHANGED clock

\* the settle timer of part_005 runs
SessionSettleTimer ==
  /\ RunSettleTimer
  /\ peer' = [peer EXCEPT
                !.clients = Written(@, lastEvent'.sentTo, "create-offer")]
  /\ UNCHANGED clock

\* websocket.onmessage of a participant for the message written first
ClientMessage(ws) ==
  /\ peer.clients[ws].inbox # <<>>
  /\ peer' = [peer EXCEPT
                !.clients[ws] = onmessage([@ EXCEPT !.inbox = Tail(@)],
                                          Head(peer.clients[ws].inbox))]
  /\ UNCHANGED relayVars

\* an operation of a participant's peer connection settles
ClientSettles(ws) ==
  /\ peer.clients[ws].operations # <<>>
  /\ peer' = [peer EXCEPT !.clients[ws] = settles(@)]
  /\ UNCHANGED relayVars

NextSession ==
  \/ \E ws \in WS : Connection(ws)
  \/ \E ws \in WS : ClientOpen(ws)
  \/ \E ws \in WS : SessionMessage(ws)
  \/ SessionSettleTimer
  \/ \E ws \in WS : ClientMessage(ws)
  \/ \E ws \in WS : ClientSettles(ws)

SpecSession == InitSession /\ [][NextSession]_vars

\* every event that can happen does: a socket that connects is accepted and
\* opens, a message sent is handled, a timer set runs, an operation settles
FairSession ==
  /\ \A ws \in WS : WF_vars(Connection(ws))
  /\ \A ws \in WS : WF_vars(ClientOpen(ws))
  /\ \A ws \in WS : WF_vars(SessionMessage(ws))
  /\ WF_vars(SessionSettleTimer)
  /\ \A ws \in WS : WF_vars(ClientMessage(ws))
  /\ \A ws \in WS : WF_vars(ClientSettles(ws))

SpecSessionFair == InitSession /\ [][NextSession]_vars /\ FairSession

\* ================================================================ claims
Room == GetRoom(roomConnections, MainRoom)

\* the entries of a room that hold a role
Holders(connections, role) ==
  {i \in 1 .. Len(connections) : wsRole[connections[i]] = role}

Opposite(role) ==
  CASE role = "phone" -> "browser"
    [] role = "browser" -> "phone"
    [] OTHER -> "no-role"

\* the last handler sent a create-offer instruction
SentCreateOffer ==
  /\ lastEvent.sentTo # NoWS
  /\ lastEvent.ev = "timer" \/ lastEvent.type = "register"

\* the last handler was handleOffer / handleAnswer / handleIceCandidate
RoutedMessage == lastEvent.ev = "message" /\ lastEvent.type \in ForwardTypes

\* exactly one producer and one consumer registration have been handled,
\* made by two connections that are both still open
Paired ==
  /\ regCount = 2
  /\ \E p, b \in WS :
       /\ p # b
       /\ wsRole[p] = "phone" /\ wsRole[b] = "browser"
       /\ readyState[p] = OPEN /\ readyState[b] = OPEN

\* C1: a session that received one producer and one consumer registration gets
\* exactly one create-offer: never two, and one once no settle timer is pending.
C1_ExactlyOneCreateOffer ==
  Paired => /\ offersSent <= 1
            /\ timers = 0 => offersSent = 1

\* C2: every create-offer the relay sends goes to a handle that is in the
\* session and whose role is 'browser' (never to a 'phone' handle).
C2_CreateOfferToConsumer ==
  SentCreateOffer =>
    /\ wsRole[lastEvent.sentTo] = "browser"
    /\ lastEvent.sentTo \in Range(Room)

C2_Witness ==
  /\ relay = "part_005"
  /\ lastEvent.ev = "timer"
  /\ lastEvent.sentTo # NoWS
  /\ \E p \in Range(Room) : wsRole[p] = "phone"

\* C3: each session holds at most one entry per role.
C3_OneEntryPerRole ==
  \A r \in DOMAIN roomConnections :
    \A role \in {"phone", "browser"} :
      Cardinality(Holders(roomConnections[r], role)) <= 1

\* C4: no session entry of the registry has an empty connection list; the
\* close that removes the last connection deletes the entry.
C4_NoEmptySession ==
  \A r \in DOMAIN roomConnections : Len(roomConnections[r]) > 0

\* a connection that had joined has closed, and its session is gone
C4_Witness ==
  /\ \E ws \in WS : readyState[ws] = CLOSED /\ wsRoomId[ws] = MainRoom
  /\ DOMAIN roomConnections = {}

\* C5: a registration for a role that another live handle occupies removes
\* that handle from the session, closes its connection, and puts the new
\* handle in the role.
C5_EvictionClosesPrior ==
  [][\A ws \in WS :
       ( /\ lastEvent'.type = "register"
         /\ lastEvent'.ws = ws
         /\ regCount' = regCount + 1
         /\ wsRole'[ws] \in {"phone", "browser"} ) =>
       LET prior == ExistingClient(Room, wsRole'[ws])
       IN (prior # NoWS /\ prior # ws /\ readyState[prior] = OPEN) =>
            /\ prior \notin Range(roomConnections'[MainRoom])
            /\ readyState'[prior] # OPEN
            /\ ws \in Range(roomConnections'[MainRoom])
    ]_vars

\* C6: a forwarded offer/answer/ice-candidate goes to the handle of the role
\* opposite to the sender's, in the sender's session, never to the sender.
C6_ForwardToOppositeRole ==
  (RoutedMessage /\ lastEvent.sentTo # NoWS) =>
    /\ lastEvent.sentTo # lastEvent.ws
    /\ wsRole[lastEvent.sentTo] = Opposite(wsRole[lastEvent.ws])
    /\ lastEvent.sentTo \in Range(GetRoom(roomConnections, wsRoomId[lastEvent.ws]))

\* the sender never joined, or its session has no handle of the opposite role
NoCounterpart(ws) ==
  \/ wsRoomId[ws] = Undefined
  \/ Holders(GetRoom(roomConnections, wsRoomId[ws]), Opposite(wsRole[ws])) = {}

\* C7: a message routed while the opposite role has no handle (or from a
\* sender that never joined) is delivered to nobody and leaves the registry
\* unchanged.
C7_DropWithoutCounterpart ==
  [][(RoutedMessage' /\ NoCounterpart(lastEvent'.ws)) =>
       /\ lastEvent'.sentTo = NoWS
       /\ roomConnections' = roomConnections
    ]_vars

\* C8: the forwarded messages written to one connection are in the order in
\* which the relay received them.
C8_Fifo ==
  \A ws \in WS :
    \A i, j \in 1 .. Len(outbox[ws]) : i < j => outbox[ws][i] < outbox[ws][j]

\* two messages were forwarded to one connection by another one
C8_Witness ==
  \E ws \in WS :
    /\ Len(outbox[ws]) >= 2
    /\ \E p \in WS : p # ws /\ wsRoomId[p] = MainRoom /\ readyState[p] = OPEN

\* C9: a connection whose close event has been handled is in no session and
\* is never sent a message again.
C9_ClosedIsGone ==
  \A ws \in WS :
    readyState[ws] = CLOSED =>
      /\ \A r \in DOMAIN roomConnections : ws \notin Range(roomConnections[r])
      /\ lastEvent.sentTo # ws

\* C10: on either peer, addIceCandidate never runs on the peer connection
\* while no remote description is set.
C10_NoCandidateBeforeRemoteDescription == peer.invalid = {}

\* no addIceCandidate call is waiting in the operations chain
NoCandidatePending ==
  \A i \in 1 .. Len(peer.operations) : peer.operations[i].op # "addIceCandidate"

\* C11: once the remote description is set and no candidate is waiting, every
\* candidate received so far, those that arrived before the description
\* included, has been applied exactly once, in arrival order.
C11_BufferedCandidatesReplayed ==
  (peer.remoteDescription /\ NoCandidatePending) =>
    peer.applied = [i \in 1 .. peer.candidates |-> i]

\* C12: on the browser, with no ICE state change handled, consecutive
\* candidate-apply failures cause no restart up to the 3rd and exactly one
\* restart once the 4th has failed.
C12_RestartAfterFourthFailure ==
  (peer.side = "browser" /\ peer.iceEvents = 0 /\ peer.applied = <<>>) =>
    /\ Cardinality(peer.invalid) < 4 => peer.restarts = 0
    /\ Cardinality(peer.invalid) = 4 => peer.restarts = 1

AllSocketsClosed == \A i \in SocketIds : peer.sockets[i] = "closed"

\* the delays, in seconds, the backoff gives to consecutive failures
BackoffSeconds == <<1, 2, 4, 8, 16>>

\* C14: every reconnect timer set by the error handler has the delay 2^attempt
\* seconds, attempt being the number of reconnects made since the last open
\* (1, 2, 4, 8, 16 seconds for attempt 0 .. 4).
C14_BackoffDelay ==
  \A k \in 1 .. Len(peer.timers) :
    peer.timers[k].made < ReconnectCap =>
      peer.timers[k].ms = BackoffSeconds[peer.timers[k].made + 1] * 1000

\* the 5th failure in a row (four reconnects made, five sockets failed) has
\* set a timer of 16 s
C14_Witness ==
  /\ peer.made = 4
  /\ Len(peer.sockets) = 5
  /\ AllSocketsClosed
  /\ \E k \in 1 .. Len(peer.timers) : peer.timers[k].ms = 16000

\* C15: never more than 5 reconnects are made without an open in between,
\* and once the 5th has failed the reported status is 'disconnected'.
C15_CapThenDisconnected ==
  /\ peer.made <= ReconnectCap
  /\ (peer.made = ReconnectCap /\ AllSocketsClosed) => peer.status = "disconnected"

\* the 5th reconnect failed, and the timer its failure set has run
C15_Witness ==
  /\ peer.made = ReconnectCap
  /\ AllSocketsClosed
  /\ peer.timers = <<>>
  /\ Len(peer.sockets) > ReconnectCap

\* C13: when the restart throws, the fallback has closed the peer connection
\* and the websocket the refs held when the new ones are created.
C13_TeardownBeforeReinit ==
  [][(/\ peer'.restarts = peer.restarts + 1
      /\ Len(peer'.pcs) = Len(peer.pcs) + 1) =>
       /\ peer.pcRef # 0 => peer'.pcs[peer.pcRef] = "closed"
       /\ peer.wsRef # 0 => peer'.sockets[peer.wsRef] \notin {"connecting", "open"}
    ]_vars

\* the terminal state: 'disconnected' is reported, no websocket is left, and
\* (browser) the reconnect attempts are used up
Disconnected ==
  /\ peer.status = "disconnected"
  /\ AllSocketsClosed
  /\ peer.side = "browser" => peer.made = ReconnectCap

\* C16: from Disconnected, any step other than the explicit re-initialization
\* leaves the reported status 'disconnected' and creates no new connection.
C16_DisconnectedIsTerminal ==
  [][(Disconnected /\ ~Reinitialize) =>
       /\ peer'.status = "disconnected"
       /\ Len(peer'.pcs) = Len(peer.pcs)
    ]_vars

\* C17: a gate admits at most once between two releases: however often and
\* whenever the test is called while isProcessing is set, it admits nothing.
C17_OneAdmitUntilRelease ==
  \A i \in 1 .. Len(peer.loops) : peer.loops[i].admits <= 1

\* a call was dropped while the gate was closed although the interval had
\* passed since the admit
C17_Witness ==
  /\ peer.loops[1].isProcessing
  /\ peer.loops[1].lastCall.result = "drop"
  /\ peer.loops[1].lastCall.at - peer.loops[1].lastDetectionTime >= DETECTION_INTERVAL

C18_OneOutstandingRequest ==
  Cardinality({i \in LoopIds : peer.loops[i].at = "awaiting"}) <= 1

\* C20: whenever a gate has admitted (isProcessing is set), isProcessing is
\* cleared later, whether the analysis ends with a result, none or an error,
\* the capture fails or cleanup() runs in between.
C20_AdmitLeadsToRelease ==
  \A i \in 1 .. MaxLoops :
    (i \in LoopIds /\ peer.loops[i].isProcessing)
      ~> (i \in LoopIds /\ ~peer.loops[i].isProcessing)

\* ---------------------------------------------------------------------
\* C21: after n samples recorded since the construction or the last reset,
\* the window holds exactly the last min(n, 100) of them in the order they
\* were recorded (the 101st removes the oldest), and never more than 100.
Window == peer.metrics.frameMetrics

Kept == IF peer.sinceReset < FrameWindow THEN peer.sinceReset ELSE FrameWindow

C21_WindowHoldsLastSamples ==
  /\ Len(Window) = Kept
  /\ Len(Window) <= FrameWindow
  /\ \A i \in 1 .. Kept :
       Window[i].frame_id = <<peer.resets, peer.sinceReset - Kept + i>>

C21_Witness ==
  /\ peer.sinceReset = FrameWindow + 1
  /\ Len(Window) = FrameWindow
  /\ Window[1].frame_id = <<peer.resets, 2>>
  /\ Window[FrameWindow].frame_id = <<peer.resets, FrameWindow + 1>>

\* ---------------------------------------------------------------------
\* C22: the processed-frame counter is the number of samples recorded since
\* the construction or the last reset: every recorded sample adds one to it,
\* and a removal from the window, a read, a bandwidth update or an export
\* leaves it as it is (it reads 101 after the 101st sample).
C22_CounterCountsSamples ==
  [][/\ peer.metrics.processedFrames = peer.sinceReset
     /\ peer'.metrics.processedFrames = peer'.sinceReset
     /\ peer'.sinceReset = peer.sinceReset + 1
          => peer'.metrics.processedFrames = peer.metrics.processedFrames + 1
     /\ peer'.lastOp \in {"getMetrics", "exportMetrics", "setBandwidthStats"}
          => peer'.metrics.processedFrames = peer.metrics.processedFrames]_vars

C22_Witness ==
  /\ peer.metrics.processedFrames = FrameWindow + 1
  /\ Len(Window) = FrameWindow
  /\ peer.lastOp = "exportMetrics"
  /\ peer.origin = "synthetic"

\* ---------------------------------------------------------------------
\* C23: the percentile p of a sorted list of n latencies is the linear
\* interpolation between the elements at floor(idx) and ceil(idx), where idx
\* is p / 100 * (n - 1) and the weight is idx mod 1; it is 0 for the empty
\* list.  For the latencies 10, 20, 30, 40 the median is 25 and the 95th
\* percentile is 38.5.  (Values are in hundredths.)
Sorted == SortAscending(WindowLatencies(peer.metrics))

\* 100 * idx
Idx100 == peer.computed.percentile * (Len(Sorted) - 1)

Floor(x100) == x100 \div 100

Ceil(x100) == (x100 + 99) \div 100

Interpolated ==
  IF Len(Sorted) = 0 THEN 0
  ELSE 100 * Sorted[Floor(Idx100) + 1]
       + (Sorted[Ceil(Idx100) + 1] - Sorted[Floor(Idx100) + 1]) * (Idx100 % 100)

C23_PercentileInterpolates ==
  peer.computed # NoPercentile =>
    /\ IsAscending(Sorted)
    /\ peer.computed.value = Interpolated
    /\ Sorted = <<10, 20, 30, 40>> /\ peer.computed.percentile = 50
         => peer.computed.value = 2500
    /\ Sorted = <<10, 20, 30, 40>> /\ peer.computed.percentile = 95
         => peer.computed.value = 3850

C23_Witness ==
  /\ WindowLatencies(peer.metrics) = <<40, 10, 30, 20>>
  /\ peer.computed = [percentile |-> 95, value |-> 3850]

\* ---------------------------------------------------------------------
\* C24: after a reset the window, the counter and the latency percentiles
\* are those of a collector that was just made.
Fresh == NewCollector(peer.now)

C24_ResetGivesFreshCollector ==
  [][peer'.resets = peer.resets + 1 =>
       /\ peer'.metrics.frameMetrics = Fresh.frameMetrics
       /\ peer'.metrics.processedFrames = Fresh.processedFrames
       /\ getMetrics(peer'.metrics, peer.now).latency = getMetrics(Fresh, peer.now).latency
       /\ peer'.metrics = Fresh]_vars

C24_Witness ==
  /\ peer.lastOp = "reset"
  /\ peer.resets = 1
  /\ peer.ticks > 0
  /\ peer.metrics = NewCollector(peer.now)
  /\ peer.metrics # NewCollector(StartTime)

\* ---------------------------------------------------------------------
\* C25: an export carries the latency, fps, bandwidth and total-frame values
\* a read gives in the same state, and exactly the last min(10, size of the
\* window) samples in the order they were recorded; it changes nothing in
\* the collector.
Exported == exportMetrics(peer.metrics, peer.now)

Snapshot == getMetrics(peer.metrics, peer.now)

Details == IF Len(Window) < ExportDetails THEN Len(Window) ELSE ExportDetails

ExportAgrees ==
  /\ Exported.latency.median_ms = Snapshot.latency.median
  /\ Exported.latency.p95_ms = Snapshot.latency.p95
  /\ Exported.processed_fps = Snapshot.fps
  /\ Exported.bandwidth.uplink_kbps = Snapshot.bandwidth.uplink
  /\ Exported.bandwidth.downlink_kbps = Snapshot.bandwidth.downlink
  /\ Exported.total_frames = Snapshot.totalFrames
  /\ Len(Exported.frame_details) = Details
  /\ \A i \in 1 .. Details :
       Exported.frame_details[i] = Window[Len(Window) - Details + i]

C25_ExportAgreesWithSnapshot ==
  [][peer'.lastOp = "exportMetrics" /\ peer.lastOp # "exportMetrics" =>
       /\ ExportAgrees
       /\ peer'.metrics = peer.metrics]_vars

C25_Witness ==
  /\ peer.lastOp = "exportMetrics"
  /\ peer.sinceReset = FrameWindow + 1
  /\ Len(Exported.frame_details) = ExportDetails
  /\ Exported.frame_details[1].frame_id = <<peer.resets, FrameWindow + 2 - ExportDetails>>
  /\ Exported.total_frames = FrameWindow + 1
  /\ Exported.bandwidth.uplink_kbps > 0
  /\ Exported.processed_fps > 0

\* ---------------------------------------------------------------------
\* C26: a synthetic bandwidth estimate can be told from a measured one in
\* every read and export: two runs that differ only in whether the same
\* uplink and downlink numbers were measured or made up give different
\* outputs.
DifferOnlyInOrigin ==
  /\ peer.metrics = peer.other.metrics
  /\ {peer.origin, peer.other.origin} = {"measured", "synthetic"}

C26_SyntheticIsDistinguishable ==
  DifferOnlyInOrigin =>
    /\ getMetrics(peer.metrics, peer.now) # getMetrics(peer.other.metrics, peer.now)
    /\ exportMetrics(peer.metrics, peer.now) # exportMetrics(peer.other.metrics, peer.now)

\* ---------------------------------------------------------------------
\* C27: whenever the analysis of a frame fails (the collaborator throws, the
\* network fails, or an error body comes back), the caller is handed an
\* empty detection set for that frame, so that the detections of an earlier
\* frame are not left on display, and the loop goes on.
Failures == {"errorBody", "none", "error"}

C27_FailureHandsEmptySet ==
  [][\A i \in 1 .. Len(peer.loops) :
       /\ peer.loops[i].at = "awaiting"
       /\ peer'.loops[i].at # "awaiting"
       /\ peer'.outcome \in Failures
       => /\ peer'.detections = "empty"
          /\ peer'.loops[i].at = "frame"
          /\ ~peer'.loops[i].isProcessing]_vars

\* ---------------------------------------------------------------------
\* C28: once a producer and a consumer have registered and both stay open,
\* the consumer is sent create-offer no later than one settle delay after
\* the later of the two registrations (a consumer that registers 50 ms
\* after the producer has it no later than 150 ms after the producer's
\* registration).
LaterOf(a, b) == IF a < b THEN b ELSE a

C28_CreateOfferWithinSettleDelay ==
  \A p, b \in WS :
    /\ readyState[p] = OPEN /\ wsRole[p] = "phone" /\ clock.regAt[p] >= 0
    /\ readyState[b] = OPEN /\ wsRole[b] = "browser" /\ clock.regAt[b] >= 0
    /\ clock.now > LaterOf(clock.regAt[p], clock.regAt[b]) + SettleDelay
    => /\ clock.offerAt[b] >= 0
       /\ clock.offerAt[b] <= LaterOf(clock.regAt[p], clock.regAt[b]) + SettleDelay

\* ---------------------------------------------------------------------
\* C29: the failure counter is 0 after every transition to Connected, so
\* that failures counted before a connection succeeded play no part in a
\* later decision to restart.
C29_CounterResetOnConnected ==
  [][peer.status # "connected" /\ peer'.status = "connected"
       => peer'.iceFailureCount = 0]_vars

\* ---------------------------------------------------------------------
\* C30: every connectivity signal moves the machine to the state mapped to
\* it: 'connecting' to Negotiating, 'connected' to Connected, 'disconnected'
\* to Disconnected, and 'failed' to Degraded, a state that is not
\* Disconnected and from which 'connected' leads back to Connected.
C30_SignalsMapToStates ==
  [][\A state \in {"connecting", "connected", "failed", "disconnected"} :
       peer' = onconnectionstatechange(peer, state) =>
         /\ state = "connecting" => peer'.status = "connecting"
         /\ state = "connected" => peer'.status = "connected"
         /\ state = "disconnected" => peer'.status = "disconnected"
         /\ state = "failed" =>
              /\ peer' # onconnectionstatechange(peer, "disconnected")
              /\ onconnectionstatechange(peer', "connected").status = "connected"]_vars

\* ---------------------------------------------------------------------
\* C31: the phone never creates or sends an offer; the browser calls
\* createOffer only when it handles a create-offer message, once for each,
\* and sends one offer for each once its operations have settled; so a phone
\* and a browser never both have an offer that was created and not answered.
OfferPending(c) ==
  \E i \in 1 .. Len(c.operations) :
    c.operations[i].op = "createOffer" \/ c.operations[i].sdp = "offer"

OfferOutstanding(c) == c.created > c.answersGot

Malformed ==
  /\ lastEvent.ev = "message"
  /\ \/ lastEvent.type \in {"unparseable", "unknown"}
     \/ lastEvent.type = "register" /\ wsRole[lastEvent.ws] \notin {"phone", "browser"}

C32_MalformedIsDropped ==
  [][Malformed' =>
       /\ lastEvent'.sentTo = NoWS
       /\ roomConnections' = roomConnections]_vars

\* ---------------------------------------------------------------------
\* C33: on the phone as on the browser, after an error of the signaling
\* websocket a reconnect is made later (a new websocket is created), as
\* long as fewer than 5 attempts have been used.
\* the error handler has run: the browser's has set a timer that has not run
\* yet, the phone's has shown the error
SignalingError ==
  IF peer.side = "browser" THEN peer.timers # <<>> ELSE peer.error

C33_ErrorLeadsToReconnect ==
  \A n \in 1 .. (MaxInits - 1) :
    (Len(peer.sockets) = n /\ SignalingError /\ peer.reconnectAttempts < ReconnectCap)
      ~> (Len(peer.sockets) > n)

\* ---------------------------------------------------------------------
\* C34: when a browser and a phone have both sent their registration, in
\* either order, and the connections stay open, the handshake is completed
\* later: the browser has handled a create-offer, the phone has handled the
\* browser's offer and the browser has handled the phone's answer.
BothRegister(b, p) ==
  /\ peer.clients[b].side = "browser" /\ peer.clients[b].socket = "open"
  /\ peer.clients[p].side = "phone" /\ peer.clients[p].socket = "open"

HandshakeComplete(b, p) ==
  /\ peer.clients[b].instructions > 0
  /\ peer.clients[p].offersGot > 0
  /\ peer.clients[b].answersGot > 0

C34_HandshakeCompletes ==
  \A b, p \in WS :
    (b \in DOMAIN peer.clients /\ p \in DOMAIN peer.clients /\ BothRegister(b, p))
      ~> HandshakeComplete(b, p)

\* ---------------------------------------------------------------------
\* C35: an offer, answer or ice-candidate is delivered only if the socket
\* that sent it is in the room at that time: a socket that a later
\* registration of the same role removed from the room, and that is still
\* open, gets nothing delivered any more.
SenderInRoom ==
  lastEvent.ws \in Range(GetRoom(roomConnections, wsRoomId[lastEvent.ws]))

C35_EvictedSenderIsNotForwarded ==
  (RoutedMessage /\ lastEvent.sentTo # NoWS) => SenderInRoom

\* ---------------------------------------------------------------------
\* C36: the browser has at most one open signaling websocket and at most
\* one peer connection that was not closed, at any time.
OpenSockets == {i \in 1 .. Len(peer.sockets) : peer.sockets[i] = "open"}

UnclosedPcs == {i \in 1 .. Len(peer.pcs) : peer.pcs[i] # "closed"}

C36_OneChannelOnePeerConnection ==
  peer.side = "browser" =>
    /\ Cardinality(OpenSockets) <= 1
    /\ Cardinality(UnclosedPcs) <= 1

\* ---------------------------------------------------------------------
\* C37: once cleanup() has run (both refs are null), no reconnect is made
\* and no websocket or peer connection is created, even when a reconnect
\* timer set earlier is still to run; the status stays 'disconnected'.
CleanedUp == peer.pcRef = 0 /\ peer.wsRef = 0

C37_NoReconnectAfterCleanup ==
  [][CleanedUp =>
       /\ Len(peer'.sockets) = Len(peer.sockets)
       /\ Len(peer'.pcs) = Len(peer.pcs)
       /\ peer'.reconnectAttempts = peer.reconnectAttempts
       /\ peer'.status = "disconnected"]_vars

\* ---------------------------------------------------------------------
\* C38: a sample is recorded, and the counter of processed frames goes up,
\* only when the analysis came back with a detection result (frame_id,
\* capture_ts, recv_ts, inference_ts); an analysis that failed, the body of
\* an error response included, records nothing.
Recorded ==
  \/ peer'.metrics.frameMetrics # peer.metrics.frameMetrics
  \/ peer'.metrics.processedFrames # peer.metrics.processedFrames

C38_SampleOnlyForResult ==
  [][/\ Recorded => peer'.outcome \in {"objects", "empty"}
     /\ \A i \in 1 .. Len(peer.loops) :
          /\ peer.loops[i].at = "awaiting"
          /\ peer'.loops[i].at # "awaiting"
          /\ peer'.outcome \in Failures
          => ~Recorded]_vars

\* ---------------------------------------------------------------------
\* C39: whenever the relay sends create-offer, the room holds at that
\* moment a 'phone' socket and a 'browser' socket that are two different
\* connections and are both open.
BothPresentAndOpen ==
  \E p, b \in Range(Room) :
    /\ p # b
    /\ wsRole[p] = "phone" /\ readyState[p] = OPEN
    /\ wsRole[b] = "browser" /\ readyState[b] = OPEN

C39_CreateOfferOnlyWhenBothOpen == SentCreateOffer => BothPresentAndOpen

\* ---------------------------------------------------------------------
\* C40: when the relay has handled the message a participant sends on
\* open (the browser {type: 'join', role: 'browser'}, the phone
\* {type: 'start-stream', role: 'phone'}), the sender is in the room under
\* that role.
C40_RegistrationIsRecognised ==
  [][\A ws \in DOMAIN peer.clients :
       (~peer.clients[ws].registered /\ peer'.clients[ws].registered) =>
         /\ wsRole'[ws] = peer.clients[ws].side
         /\ ws \in Range(GetRoom(roomConnections', MainRoom))]_vars

====
